---------------------------- MODULE Spec2Model ----------------------------
(***************************************************************************)
(* Model of the BetweenUS Slack bot.                                       *)
(*                                                                         *)
(*   - the mention handler of app.py (handle_app_mention_events) driving   *)
(*     a compiled LangGraph executor: the graph of app.py (agent <->       *)
(*     tools) or the graph of agent.py (classifier -> agent <-> tools);    *)
(*   - the nodes classifier_node, conflict_resolution_agent, call_tools    *)
(*     and the edge function should_continue;                              *)
(*   - the tools the model may request, with get_user_info of              *)
(*     tools/slack_tools.py and of app.py;                                 *)
(*   - the transcript aggregator _iter_channel_messages and the part of    *)
(*     summarize_channel_history that wraps it;                            *)
(*   - the context tools of tools/slack_tools.py, each call on its own;    *)
(*   - set_prompt, enable_classification and set_slack_client, called      *)
(*     while a run is under way.                                           *)
(*                                                                         *)
(* A text is a sequence of string pieces: an f-string is the sequence of   *)
(* its literal and interpolated parts, the empty string is << >>.          *)
(***************************************************************************)
EXTENDS Integers, Sequences, FiniteSets, TLC

VARIABLES
    graph,                    \* which compiled executor runs: "app" (app.py) or "agent" (agent.py)
    env,                      \* behaviour of the remote collaborators during this run
    client,                   \* tools/slack_tools.py: the injected client handle ("None" or "client")
    classifierFile,           \* whether prompts/classifier_prompt.txt exists
    CURRENT_PROMPT_NAME,      \* agent.py global
    USE_CLASSIFICATION,       \* agent.py global
    hpc,                      \* position of handle_app_mention_events
    node,                     \* next node of the graph
    steps,                    \* super-steps the executor has run
    messages,                 \* state["messages"]
    prompt_type,              \* state["prompt_type"]
    classification_reasoning, \* state["classification_reasoning"]
    posted,                   \* texts passed to say() that were delivered
    sayFailed,                \* some say() call raised
    caught,                   \* what the handler's except clause caught ("none" if nothing)
    llmCalls,                 \* invocations of llm (RESPOND transitions that reached the model)
    toolRounds,               \* executions of call_tools
    requested,                \* tool calls requested so far in this run
    cls,                      \* what classifier_llm answered in this run (history)
    used,                     \* the labels the RESPOND transitions of this run built their prompt from
    it                        \* a process beside the run: one context-tool call, or the administrator

runVars == <<graph, env, client, classifierFile, CURRENT_PROMPT_NAME, USE_CLASSIFICATION,
             hpc, node, steps, messages, prompt_type, classification_reasoning,
             posted, sayFailed, caught, llmCalls, toolRounds, requested, cls, used>>

vars == <<runVars, it>>

-----------------------------------------------------------------------------
(* Bounds of the model *)

\* tool calls one assistant message may carry
MaxCalls == 2

\* tool calls the model may request over one run
MaxRunCalls == 5

-----------------------------------------------------------------------------
(* Program constants *)

\* app.py: config={"recursion_limit": 10, ...}
recursion_limit == 10

None == "None"

\* app.py: the text posted when no final answer was extracted
FallbackResponse == <<"I'm here to help with any conflicts or discussions. How can I assist you in finding common ground?">>

\* app.py: the text posted by the except clause
error_message == <<"I encountered an issue while processing your message. Let me try to help you find a solution anyway. What specific conflict or challenge are you facing?">>

\* agent.py: tools = [...] / app.py: tools = [...]; tool_executor = {tool.name: tool for tool in tools}
tool_executor(g) ==
    IF g = "app"
    THEN {"get_channel_history", "get_user_info", "google_search_tool"}
    ELSE {"get_channel_history", "get_user_info", "google_search_tool",
          "find_user_by_name", "get_mentioned_users", "list_channel_members",
          "summarize_channel_history"}

\* the labels of ConflictResolutionState.prompt_type and the default prompt name
KnownLabels == {"prompt1", "prompt2", "prompt3", "prompt4", "conflict_analyst_prompt"}


-----------------------------------------------------------------------------
(* Messages *)

HumanMessage(text) ==
    [type |-> "human", content |-> text, tool_calls |-> << >>, tool_call_id |-> 0, name |-> ""]

AIMessage(text, calls) ==
    [type |-> "ai", content |-> text, tool_calls |-> calls, tool_call_id |-> 0, name |-> ""]

ToolMessage(text, id, tool_name) ==
    [type |-> "tool", content |-> text, tool_calls |-> << >>, tool_call_id |-> id, name |-> tool_name]

\* a channel without a reducer: the update overwrites the value
add_messages_overwrite(left, right) == right

\* messages: Annotated[Sequence[BaseMessage], add_messages]: the reducer appends the
\* update of a node (new messages carry fresh identifiers) to the history
add_messages(left, right) == left \o right

\* the identifier the model gives the i-th tool call of the assistant message at index pos
CallId(pos, i) == pos * (MaxCalls + 1) + i

ToolCall(tool_name, arguments, id) == [name |-> tool_name, args |-> arguments, id |-> id]

-----------------------------------------------------------------------------
(* Remote collaborators.  env.users_info is what client.users_info does     *)
(* ("ok": answers ok with a profile, "not_ok": answers with ok false,       *)
(* "raise": raises), env.search what the web-search backend does.           *)

Environments ==
    { [users_info |-> "ok", search |-> "raise"],
      [users_info |-> "not_ok", search |-> "ok"],
      [users_info |-> "raise", search |-> "ok"] }

\* the real name the identity resolver holds for a user
RealNameOf(user_id) == IF user_id = "U2" THEN "Dana" ELSE "Sam"

\* what str(e) gives for the failures of the remote calls
UsersInfoError == "users_info failed"
SearchError == "search backend failed"
LlmError == "model call failed"

\* a get_user_info that renders the name inside a sentence
get_user_info_sentence(cl, e, user_id) ==
    IF cl = None
    THEN [raised |-> FALSE, text |-> <<"Error: Slack client not initialized">>]
    ELSE IF e.users_info = "raise"
    THEN [raised |-> FALSE, text |-> <<"Error fetching user info: ", UsersInfoError>>]
    ELSE IF e.users_info = "ok"
    THEN [raised |-> FALSE, text |-> <<"User name: ", RealNameOf(user_id)>>]
    ELSE [raised |-> FALSE, text |-> <<"User info not found for ID: ", user_id>>]

\* tools/slack_tools.py get_user_info
get_user_info(cl, e, user_id) ==
    IF cl = None
    THEN [raised |-> FALSE, text |-> <<"Error: Slack client not initialized">>]
    ELSE IF e.users_info = "raise"
    THEN [raised |-> FALSE, text |-> <<"Error fetching user info: ", UsersInfoError>>]
    ELSE IF e.users_info = "ok"
    THEN [raised |-> FALSE, text |-> <<RealNameOf(user_id)>>]
    ELSE [raised |-> FALSE, text |-> <<"User info not found for ID: ", user_id>>]

\* app.py get_user_info (its client is app.client, always set)
app_get_user_info(e, user_id) ==
    IF e.users_info = "raise"
    THEN [raised |-> FALSE, text |-> <<"Error fetching user info: ", UsersInfoError>>]
    ELSE IF e.users_info = "ok"
    THEN [raised |-> FALSE, text |-> <<RealNameOf(user_id)>>]
    ELSE [raised |-> FALSE, text |-> <<"User info not found for ID: ", user_id>>]

\* tools/search_tools.py google_search_tool: GoogleSearchRun catches nothing
google_search_tool(e, query) ==
    IF e.search = "ok"
    THEN [raised |-> FALSE, text |-> <<"results for ", query>>]
    ELSE [raised |-> TRUE, text |-> <<SearchError>>]

\* tool_executor[tool_name].invoke(tool_args), for the tools the model requests here
Invoke(g, cl, e, tool_name, tool_args) ==
    CASE tool_name = "get_user_info" ->
            IF g = "app" THEN app_get_user_info(e, tool_args.user_id)
            ELSE get_user_info(cl, e, tool_args.user_id)
      [] tool_name = "google_search_tool" -> google_search_tool(e, tool_args.query)

\* the tool names the model asks for, one of them registered nowhere
RequestNames == {"get_user_info", "google_search_tool", "no_such_tool"}

ArgsOf(tool_name) ==
    CASE tool_name = "get_user_info" -> [user_id |-> "U2"]
      [] tool_name = "google_search_tool" -> [query |-> "q"]
      [] OTHER -> [x |-> "1"]

-----------------------------------------------------------------------------
(* call_tools (agent.py 158-187, app.py 133-162: the same code) *)

\* a loop body that passes on the failure description alone
ToolOutputBare(g, cl, e, tool_call) ==
    IF tool_call.name \in tool_executor(g)
    THEN LET r == Invoke(g, cl, e, tool_call.name, tool_call.args)
         IN  <<ToolMessage(r.text, tool_call.id, tool_call.name)>>
    ELSE << >>

\* the body of the for loop: what one tool call appends to tool_outputs
ToolOutput(g, cl, e, tool_call) ==
    IF tool_call.name \in tool_executor(g)
    THEN LET r == Invoke(g, cl, e, tool_call.name, tool_call.args)
         IN  IF r.raised
             THEN <<ToolMessage(<<"Error executing ", tool_call.name, ": ">> \o r.text,
                                tool_call.id, tool_call.name)>>
             ELSE <<ToolMessage(r.text, tool_call.id, tool_call.name)>>
    ELSE << >>

RECURSIVE ToolOutputs(_, _, _, _)
ToolOutputs(g, cl, e, calls) ==
    IF calls = << >> THEN << >>
    ELSE ToolOutput(g, cl, e, Head(calls)) \o ToolOutputs(g, cl, e, Tail(calls))

\* a call_tools that returns the outputs last call first
call_tools_reversed(g, cl, e, msgs) ==
    LET last_message == msgs[Len(msgs)]
        outputs == ToolOutputs(g, cl, e, last_message.tool_calls)
    IN  [i \in 1..Len(outputs) |-> outputs[Len(outputs) + 1 - i]]

\* call_tools(state): the value of {"messages": tool_outputs}
call_tools(g, cl, e, msgs) ==
    LET last_message == msgs[Len(msgs)]
    IN  IF last_message.tool_calls # << >>
        THEN ToolOutputs(g, cl, e, last_message.tool_calls)
        ELSE << >>

\* an edge function that never ends the loop
should_continue_tools(msgs) == "tools"

\* should_continue(state)
should_continue(msgs) ==
    IF msgs[Len(msgs)].tool_calls # << >> THEN "tools" ELSE "end"

-----------------------------------------------------------------------------
(* Prompt files and the classifier (agent.py) *)

\* the prompt files of prompts/ other than classifier_prompt.txt
PromptFiles == {"conflict_analyst_prompt", "prompt1", "prompt2", "prompt3", "prompt4"}

ExistingFiles(cf) == PromptFiles \cup (IF cf THEN {"classifier_prompt"} ELSE {})

\* load_system_prompt(prompt_name): TRUE when it raises FileNotFoundError
load_system_prompt_raises(cf, prompt_name) == prompt_name \notin ExistingFiles(cf)

\* the JSON documents the classifier model answers with
DocPrompt2 == "{classification: PROMPT2, reasoning: r}"
DocPrompt9 == "{classification: PROMPT9, reasoning: r}"
DocNoClassification == "{reasoning: r}"
DocEmptyObject == "{}"
DocList == "[PROMPT1]"
DocNotJson == "not-json"

\* json.loads(text)
json_loads(doc) ==
    CASE doc = DocPrompt2 ->
            [ok |-> TRUE, kind |-> "dict", has |-> {"classification", "reasoning"},
             classification |-> "PROMPT2", reasoning |-> "r"]
      [] doc = DocPrompt9 ->
            [ok |-> TRUE, kind |-> "dict", has |-> {"classification", "reasoning"},
             classification |-> "PROMPT9", reasoning |-> "r"]
      [] doc = DocNoClassification ->
            [ok |-> TRUE, kind |-> "dict", has |-> {"reasoning"},
             classification |-> "", reasoning |-> "r"]
      [] doc = DocEmptyObject ->
            [ok |-> TRUE, kind |-> "dict", has |-> {},
             classification |-> "", reasoning |-> ""]
      [] doc = DocList ->
            [ok |-> TRUE, kind |-> "list", has |-> {},
             classification |-> "", reasoning |-> ""]
      [] OTHER ->
            [ok |-> FALSE, kind |-> "", has |-> {},
             classification |-> "", reasoning |-> ""]

\* classification_result[key] in place of .get(key, default), the lookup miss unnoticed
DictIndex(d, key, default) == d[key]

\* classification_result.get(key, default)
DictGet(d, key, default) == IF key \in d.has THEN d[key] ELSE default

\* str.lower()
Lower(str) ==
    CASE str = "PROMPT1" -> "prompt1"
      [] str = "PROMPT2" -> "prompt2"
      [] str = "PROMPT3" -> "prompt3"
      [] str = "PROMPT4" -> "prompt4"
      [] str = "PROMPT9" -> "prompt9"
      [] str = "Dana Smith" -> "dana smith"
      [] str = "Pat Lee" -> "pat lee"
      [] str = "Kim Roe" -> "kim roe"
      [] str = "Sam Poe" -> "sam poe"
      [] str = "Helper" -> "helper"
      [] str = "Dana" -> "dana"
      [] str = "Sam" -> "sam"
      [] OTHER -> str

\* the opening markdown fence with and without the json tag, and the closing fence
FenceJson == "[fence json]"
Fence == "[fence]"

\* what classifier_llm.invoke does: it fails, or answers with a text
\* (a bare document, or one wrapped in a markdown fence)
ClassifierReplies ==
    { [failed |-> TRUE, text |-> << >>],
      [failed |-> FALSE, text |-> <<FenceJson, DocPrompt2, Fence>>],
      [failed |-> FALSE, text |-> <<DocPrompt9>>],
      [failed |-> FALSE, text |-> <<DocNoClassification>>],
      [failed |-> FALSE, text |-> <<DocEmptyObject>>],
      [failed |-> FALSE, text |-> <<Fence, DocList, Fence>>],
      [failed |-> FALSE, text |-> <<DocNotJson>>] }

\* lines 135-138: remove a markdown fence
StripFence(response_text) ==
    IF response_text # << >> /\ response_text[1] \in {FenceJson, Fence}
    THEN <<response_text[2]>>
    ELSE response_text

\* the content of the first HumanMessage, None when there is none
FirstHuman(msgs) ==
    LET idx == {i \in 1..Len(msgs) : msgs[i].type = "human"}
    IN  IF idx = {} THEN << >>
        ELSE msgs[CHOOSE i \in idx : \A j \in idx : i <= j].content

Fixed(label, why) ==
    [raised |-> FALSE, invoked |-> FALSE, prompt_type |-> label, reasoning |-> why]

\* lines 129-156: the try block and its except clause
Classify(reply) ==
    LET fallback(err) ==
            [raised |-> FALSE, invoked |-> TRUE, prompt_type |-> "prompt1",
             reasoning |-> <<"Classification failed: ", err, ", defaulting to prompt1">>]
    IN  IF reply.failed THEN fallback(LlmError)
        ELSE LET response_text == StripFence(reply.text)
                 parsed == json_loads(response_text[1])
             IN  IF ~parsed.ok THEN fallback("JSONDecodeError")
                 ELSE IF parsed.kind # "dict" THEN fallback("AttributeError")
                 ELSE [raised |-> FALSE, invoked |-> TRUE,
                       prompt_type |-> Lower(DictGet(parsed, "classification", "PROMPT1")),
                       reasoning |-> <<DictGet(parsed, "reasoning", "No reasoning provided")>>]

\* classifier_node(state), with the reply classifier_llm gives if it is invoked
classifier_node(use, cur, cf, msgs, reply) ==
    IF ~use
    THEN Fixed(cur, <<"Classification disabled, using fixed prompt">>)
    ELSE IF load_system_prompt_raises(cf, "classifier_prompt")
    THEN [raised |-> TRUE, invoked |-> FALSE, prompt_type |-> None, reasoning |-> << >>]
    ELSE IF FirstHuman(msgs) = << >>
    THEN Fixed("conflict_analyst_prompt", <<"No user message found, using default">>)
    ELSE Classify(reply)

-----------------------------------------------------------------------------
(* The mention handler of app.py and the graph it runs *)

\* the inbound event: body["event"]
Event == [text |-> <<"<@UBOT>", "my teammate and I disagree">>,
          channel |-> "C1", user |-> "U1", ts |-> "1700000000.000100"]

\* client.auth_test()["user_id"]
bot_user_id == "UBOT"

\* lines 226-229: strip the bot's mention, append the context
CleanMessage(event) ==
    SelectSeq(event.text, LAMBDA piece : piece # "<@" \o bot_user_id \o ">")
        \o <<" [Context: This is from user ", event.user, " in channel ", event.channel, "]">>

\* an entry point at the agent node in both graphs
EntryPointAgent(g) == "agent"

\* workflow.set_entry_point(...)
EntryPoint(g) == IF g = "app" THEN "agent" ELSE "classifier"

\* lines 255-266: the last AI message without tool calls, else the fallback
FinalResponse(msgs) ==
    LET idx == {i \in 1..Len(msgs) : msgs[i].type = "ai" /\ msgs[i].tool_calls = << >>}
        final_response ==
            IF idx = {} THEN << >>
            ELSE msgs[CHOOSE i \in idx : \A j \in idx : j <= i].content
    IN  IF final_response = << >> THEN FallbackResponse ELSE final_response

\* the replies of the model: a final answer (possibly empty) or a list of tool calls
AnswerTexts == { << >>, <<"Let's look for common ground.">> }

RECURSIVE CallLists(_)
CallLists(n) ==
    IF n = 0 THEN { << >> }
    ELSE LET shorter == CallLists(n - 1)
         IN  shorter \cup { Append(l, nm) : l \in {x \in shorter : Len(x) = n - 1}, nm \in RequestNames }

ToolCallsAt(pos, names) ==
    [i \in 1..Len(names) |-> ToolCall(names[i], ArgsOf(names[i]), CallId(pos, i))]

Replies(pos, budget) ==
    { AIMessage(t, << >>) : t \in AnswerTexts }
    \cup { AIMessage(<<"Let me check.">>, ToolCallsAt(pos, names)) :
             names \in {l \in CallLists(MaxCalls) : 1 <= Len(l) /\ Len(l) <= budget} }

ItIdle == [pc |-> "idle"]

\* the process state a run starts in: the executor that runs, the injected client, whether
\* prompts/classifier_prompt.txt exists, the two globals of agent.py (as at import, or as
\* set_prompt("prompt3") leaves them), and how the remote collaborators behave.  The
\* executor of agent.py is run by the handler of app.py: the bootstrap that imports
\* agent.py is not among the source files.
Deployments ==
    { [graph |-> "app", client |-> None, classifierFile |-> TRUE,
       use |-> TRUE, cur |-> "conflict_analyst_prompt", env |-> e] : e \in Environments }
    \cup
    { [graph |-> "agent", client |-> None, classifierFile |-> TRUE,
       use |-> FALSE, cur |-> "prompt3", env |-> e] : e \in Environments }
    \cup
    { [graph |-> "agent", client |-> "client", classifierFile |-> cf,
       use |-> TRUE, cur |-> "conflict_analyst_prompt",
       env |-> [users_info |-> "ok", search |-> "raise"]] : cf \in BOOLEAN }

Init ==
    /\ \E d \in Deployments :
          /\ graph = d.graph
          /\ env = d.env
          /\ client = d.client
          /\ classifierFile = d.classifierFile
          /\ USE_CLASSIFICATION = d.use
          /\ CURRENT_PROMPT_NAME = d.cur
    /\ hpc = "start"
    /\ node = "none"
    /\ steps = 0
    /\ messages = << >>
    /\ prompt_type = None
    /\ classification_reasoning = << >>
    /\ posted = << >>
    /\ sayFailed = FALSE
    /\ caught = "none"
    /\ llmCalls = 0
    /\ toolRounds = 0
    /\ requested = 0
    /\ cls = [invoked |-> FALSE, failed |-> FALSE, text |-> << >>]
    /\ used = {}
    /\ it = ItIdle

config == <<graph, env, client, classifierFile, CURRENT_PROMPT_NAME, USE_CLASSIFICATION>>

\* agent_executor.invoke(initial_state, config={"recursion_limit": 10, ...}): the executor
\* runs a next super-step only while fewer than recursion_limit have run
StepAllowedUnbounded(n) == TRUE

StepAllowed(n) == n < recursion_limit

\* the except clause is entered with exception e
Raise(e) ==
    /\ hpc' = "except"
    /\ caught' = e

\* lines 219-237: read the event, look up the bot's identity, build the initial state
Start ==
    /\ hpc = "start"
    /\ \/ /\ Raise("auth_test")
          /\ UNCHANGED <<node, messages>>
       \/ /\ hpc' = "graph"
          /\ node' = EntryPoint(graph)
          /\ messages' = <<HumanMessage(CleanMessage(Event))>>
          /\ UNCHANGED caught
    /\ UNCHANGED <<config, steps, prompt_type, classification_reasoning, posted, sayFailed,
                   llmCalls, toolRounds, requested, cls, used, it>>

\* a classifier step that also stores the label in the global CURRENT_PROMPT_NAME
ClassifierNodeSetsGlobal ==
    /\ hpc = "graph" /\ node = "classifier" /\ StepAllowed(steps)
    /\ \E reply \in ClassifierReplies :
          LET r == classifier_node(USE_CLASSIFICATION, CURRENT_PROMPT_NAME, classifierFile,
                                   messages, reply)
          IN  /\ cls' = IF r.invoked
                        THEN [invoked |-> TRUE, failed |-> reply.failed, text |-> reply.text]
                        ELSE cls
              /\ IF r.raised
                 THEN /\ Raise("FileNotFoundError")
                      /\ UNCHANGED <<node, steps, prompt_type, classification_reasoning,
                                     CURRENT_PROMPT_NAME>>
                 ELSE /\ prompt_type' = r.prompt_type
                      /\ CURRENT_PROMPT_NAME' = r.prompt_type
                      /\ classification_reasoning' = r.reasoning
                      /\ node' = "agent"
                      /\ steps' = steps + 1
                      /\ UNCHANGED <<hpc, caught>>
    /\ UNCHANGED <<graph, env, client, classifierFile, USE_CLASSIFICATION, messages, posted,
                   sayFailed, llmCalls, toolRounds, requested, used, it>>

\* the super-step that runs classifier_node
ClassifierNode ==
    /\ hpc = "graph" /\ node = "classifier" /\ StepAllowed(steps)
    /\ \E reply \in ClassifierReplies :
          LET r == classifier_node(USE_CLASSIFICATION, CURRENT_PROMPT_NAME, classifierFile,
                                   messages, reply)
          IN  /\ cls' = IF r.invoked
                        THEN [invoked |-> TRUE, failed |-> reply.failed, text |-> reply.text]
                        ELSE cls
              /\ IF r.raised
                 THEN /\ Raise("FileNotFoundError")
                      /\ UNCHANGED <<node, steps, prompt_type, classification_reasoning>>
                 ELSE /\ prompt_type' = r.prompt_type
                      /\ classification_reasoning' = r.reasoning
                      /\ node' = "agent"
                      /\ steps' = steps + 1
                      /\ UNCHANGED <<hpc, caught>>
    /\ UNCHANGED <<config, messages, posted, sayFailed, llmCalls, toolRounds, requested, used, it>>

\* a label read from the global at every RESPOND transition
PromptLabelGlobal(state_prompt_type, cur) == cur

\* agent.py line 192: state.get('prompt_type', CURRENT_PROMPT_NAME); the key is missing
\* until classifier_node has stored the label
PromptLabel(state_prompt_type, cur) ==
    IF state_prompt_type = None THEN cur ELSE state_prompt_type

\* the prompt the agent node builds: the template of the label (agent.py), or the
\* constant CONFLICT_RESOLUTION_PROMPT (app.py)
PromptOf(g, state_prompt_type, cur) ==
    IF g = "app" THEN "CONFLICT_RESOLUTION_PROMPT" ELSE PromptLabel(state_prompt_type, cur)

\* the super-step that runs conflict_resolution_agent, then should_continue
AgentNode ==
    /\ hpc = "graph" /\ node = "agent" /\ StepAllowed(steps)
    /\ IF graph = "agent"
          /\ load_system_prompt_raises(classifierFile, PromptOf(graph, prompt_type, CURRENT_PROMPT_NAME))
       THEN /\ Raise("FileNotFoundError")
            /\ UNCHANGED <<node, steps, messages, llmCalls, requested, used>>
       ELSE /\ llmCalls' = llmCalls + 1
            /\ used' = used \cup {PromptOf(graph, prompt_type, CURRENT_PROMPT_NAME)}
            /\ \/ /\ Raise(LlmError)
                  /\ UNCHANGED <<node, steps, messages, requested>>
               \/ \E response \in Replies(Len(messages) + 1, MaxRunCalls - requested) :
                     /\ messages' = add_messages(messages, <<response>>)
                     /\ requested' = requested + Len(response.tool_calls)
                     /\ node' = should_continue(messages')
                     /\ steps' = steps + 1
                     /\ UNCHANGED <<hpc, caught>>
    /\ UNCHANGED <<config, prompt_type, classification_reasoning, posted, sayFailed,
                   toolRounds, cls, it>>

\* the super-step that runs call_tools; the edge tools -> agent
ToolsNode ==
    /\ hpc = "graph" /\ node = "tools" /\ StepAllowed(steps)
    /\ messages' = add_messages(messages, call_tools(graph, client, env, messages))
    /\ node' = "agent"
    /\ steps' = steps + 1
    /\ toolRounds' = toolRounds + 1
    /\ UNCHANGED <<config, hpc, caught, prompt_type, classification_reasoning, posted,
                   sayFailed, llmCalls, requested, cls, used, it>>

\* the executor has run recursion_limit super-steps and a node is still to run
RecursionLimit ==
    /\ hpc = "graph" /\ node \in {"classifier", "agent", "tools"} /\ ~StepAllowed(steps)
    /\ Raise("GraphRecursionError")
    /\ UNCHANGED <<config, node, steps, messages, prompt_type, classification_reasoning,
                   posted, sayFailed, llmCalls, toolRounds, requested, cls, used, it>>

\* lines 251-269: the graph has ended; extract the final answer and post it
Reply ==
    /\ hpc = "graph" /\ node = "end"
    /\ \/ /\ posted' = Append(posted, FinalResponse(messages))
          /\ hpc' = "done"
          /\ UNCHANGED <<caught, sayFailed>>
       \/ /\ Raise("say")
          /\ sayFailed' = TRUE
          /\ UNCHANGED posted
    /\ UNCHANGED <<config, node, steps, messages, prompt_type, classification_reasoning,
                   llmCalls, toolRounds, requested, cls, used, it>>

\* an except clause that only logs
ExceptSilent ==
    /\ hpc = "except"
    /\ hpc' = "done"
    /\ UNCHANGED <<config, node, steps, messages, prompt_type, classification_reasoning,
                   posted, sayFailed, caught, llmCalls, toolRounds, requested, cls, used, it>>

\* an except clause that reports the exception it caught
ExceptTextWithError(e) == error_message \o <<e>>

\* lines 272-274: print(f"Error ...: {e}") goes to the log; the text handed to say() is
\* the constant error_message, whatever exception e was caught
ExceptText(e) == error_message

\* lines 271-274: the except clause posts the error message
Except ==
    /\ hpc = "except"
    /\ \/ /\ posted' = Append(posted, ExceptText(caught))
          /\ hpc' = "done"
          /\ UNCHANGED sayFailed
       \/ /\ hpc' = "raised"
          /\ sayFailed' = TRUE
          /\ UNCHANGED posted
    /\ UNCHANGED <<config, node, steps, messages, prompt_type, classification_reasoning,
                   caught, llmCalls, toolRounds, requested, cls, used, it>>

Next ==
    \/ Start
    \/ ClassifierNode
    \/ AgentNode
    \/ ToolsNode
    \/ RecursionLimit
    \/ Reply
    \/ Except

Spec == Init /\ [][Next]_vars

\* the host runs the handler to its end: every step that can be taken is taken
FairSpec == Spec /\ WF_vars(Next)

-----------------------------------------------------------------------------
(* set_prompt and enable_classification (agent.py) called while a run is under way.     *)
(* Each of them is one step: set_prompt writes CURRENT_PROMPT_NAME before it writes      *)
(* USE_CLASSIFICATION, and while USE_CLASSIFICATION is true no node reads                *)
(* CURRENT_PROMPT_NAME, so the state between its two writes cannot be told from the      *)
(* state before the call.                                                                *)

\* calls the administrator makes while one run is looked at
MaxAdminCalls == 2

\* the names set_prompt is called with, one of them the name of no prompt file
AdminPrompts == {"prompt2", "prompt3", "no_such_prompt"}

\* the administrator: the last call that changed the configuration, the label of the last
\* set_prompt that succeeded, the name of the last set_prompt that raised, the calls made,
\* the calls of set_prompt that raised, and the number of model invocations of the run at
\* the time of the last call; injected tells whether set_slack_client was called
ItAdmin == [pc |-> "admin", last |-> "none", p |-> None, bad |-> None, calls |-> 0,
            failed |-> 0, at |-> 0, injected |-> TRUE]

InitAdmin ==
    /\ graph = "agent"
    /\ env = [users_info |-> "ok", search |-> "raise"]
    /\ client = "client"
    /\ classifierFile = TRUE
    /\ USE_CLASSIFICATION = TRUE
    /\ CURRENT_PROMPT_NAME = "conflict_analyst_prompt"
    /\ hpc = "start"
    /\ node = "none"
    /\ steps = 0
    /\ messages = << >>
    /\ prompt_type = None
    /\ classification_reasoning = << >>
    /\ posted = << >>
    /\ sayFailed = FALSE
    /\ caught = "none"
    /\ llmCalls = 0
    /\ toolRounds = 0
    /\ requested = 0
    /\ cls = [invoked |-> FALSE, failed |-> FALSE, text |-> << >>]
    /\ used = {}
    /\ it = ItAdmin

runState == <<hpc, node, steps, messages, prompt_type, classification_reasoning, posted,
              sayFailed, caught, llmCalls, toolRounds, requested, cls, used>>

\* a set_prompt that leaves USE_CLASSIFICATION as it is
SetPromptNameOnly ==
    /\ it.pc = "admin" /\ it.calls < MaxAdminCalls
    /\ \E prompt_name \in AdminPrompts :
          IF load_system_prompt_raises(classifierFile, prompt_name)
          THEN /\ it' = [it EXCEPT !.calls = @ + 1, !.failed = @ + 1, !.bad = prompt_name]
               /\ UNCHANGED <<CURRENT_PROMPT_NAME, USE_CLASSIFICATION>>
          ELSE /\ CURRENT_PROMPT_NAME' = prompt_name
               /\ UNCHANGED USE_CLASSIFICATION
               /\ it' = [it EXCEPT !.calls = @ + 1, !.last = "set_prompt", !.p = prompt_name,
                                   !.at = llmCalls]
    /\ UNCHANGED <<graph, env, client, classifierFile, runState>>

\* a set_prompt that stores the name before it looks for the file
SetPromptWriteFirst ==
    /\ it.pc = "admin" /\ it.calls < MaxAdminCalls
    /\ \E prompt_name \in AdminPrompts :
          /\ CURRENT_PROMPT_NAME' = prompt_name
          /\ IF load_system_prompt_raises(classifierFile, prompt_name)
             THEN /\ it' = [it EXCEPT !.calls = @ + 1, !.failed = @ + 1, !.bad = prompt_name]
                  /\ UNCHANGED USE_CLASSIFICATION
             ELSE /\ USE_CLASSIFICATION' = FALSE
                  /\ it' = [it EXCEPT !.calls = @ + 1, !.last = "set_prompt", !.p = prompt_name,
                                      !.at = llmCalls]
    /\ UNCHANGED <<graph, env, client, classifierFile, runState>>

\* a set_prompt that switches classification off before it looks for the file
SetPromptFlagFirst ==
    /\ it.pc = "admin" /\ it.calls < MaxAdminCalls
    /\ \E prompt_name \in AdminPrompts :
          /\ USE_CLASSIFICATION' = FALSE
          /\ IF load_system_prompt_raises(classifierFile, prompt_name)
             THEN /\ it' = [it EXCEPT !.calls = @ + 1, !.failed = @ + 1, !.bad = prompt_name]
                  /\ UNCHANGED CURRENT_PROMPT_NAME
             ELSE /\ CURRENT_PROMPT_NAME' = prompt_name
                  /\ it' = [it EXCEPT !.calls = @ + 1, !.last = "set_prompt", !.p = prompt_name,
                                      !.at = llmCalls]
    /\ UNCHANGED <<graph, env, client, classifierFile, runState>>

\* set_prompt(prompt_name)
SetPrompt ==
    /\ it.pc = "admin" /\ it.calls < MaxAdminCalls
    /\ \E prompt_name \in AdminPrompts :
          IF load_system_prompt_raises(classifierFile, prompt_name)
          THEN /\ it' = [it EXCEPT !.calls = @ + 1, !.failed = @ + 1, !.bad = prompt_name]
               /\ UNCHANGED <<CURRENT_PROMPT_NAME, USE_CLASSIFICATION>>
          ELSE /\ CURRENT_PROMPT_NAME' = prompt_name
               /\ USE_CLASSIFICATION' = FALSE
               /\ it' = [it EXCEPT !.calls = @ + 1, !.last = "set_prompt", !.p = prompt_name,
                                   !.at = llmCalls]
    /\ UNCHANGED <<graph, env, client, classifierFile, runState>>

\* enable_classification()
EnableClassification ==
    /\ it.pc = "admin" /\ it.calls < MaxAdminCalls
    /\ USE_CLASSIFICATION' = TRUE
    /\ it' = [it EXCEPT !.calls = @ + 1, !.last = "enable_classification", !.at = llmCalls]
    /\ UNCHANGED <<graph, env, client, classifierFile, CURRENT_PROMPT_NAME, runState>>

\* the run, the model asking for at most one tool per reply
AgentNodeOneCall ==
    /\ AgentNode
    /\ Len(messages'[Len(messages')].tool_calls) <= 1

NextAdmin ==
    \/ SetPrompt
    \/ EnableClassification
    \/ Start
    \/ ClassifierNode
    \/ AgentNodeOneCall
    \/ ToolsNode
    \/ RecursionLimit
    \/ Reply
    \/ Except

SpecAdmin == InitAdmin /\ [][NextAdmin]_vars

\* the process as import leaves it (tools/slack_tools.py line 10: client = None)
InitFrame ==
    /\ graph = "agent"
    /\ env = [users_info |-> "ok", search |-> "raise"]
    /\ client = None
    /\ classifierFile = TRUE
    /\ USE_CLASSIFICATION = TRUE
    /\ CURRENT_PROMPT_NAME = "conflict_analyst_prompt"
    /\ hpc = "start"
    /\ node = "none"
    /\ steps = 0
    /\ messages = << >>
    /\ prompt_type = None
    /\ classification_reasoning = << >>
    /\ posted = << >>
    /\ sayFailed = FALSE
    /\ caught = "none"
    /\ llmCalls = 0
    /\ toolRounds = 0
    /\ requested = 0
    /\ cls = [invoked |-> FALSE, failed |-> FALSE, text |-> << >>]
    /\ used = {}
    /\ it = [ItAdmin EXCEPT !.injected = FALSE]

\* set_slack_client(slack_client), called once by the code that starts the bot
SetSlackClient ==
    /\ it.pc = "admin" /\ ~it.injected
    /\ client' = "client"
    /\ it' = [it EXCEPT !.injected = TRUE]
    /\ UNCHANGED <<graph, env, classifierFile, CURRENT_PROMPT_NAME, USE_CLASSIFICATION, runState>>

\* tool calls the model may request over the run looked at here
MaxFrameCalls == 2

\* the run, the model asking for one tool per reply and MaxFrameCalls tools in all: a run
\* too short to reach the recursion limit
AgentNodeFewCalls ==
    /\ AgentNodeOneCall
    /\ requested' <= MaxFrameCalls

NextFrame ==
    \/ SetSlackClient
    \/ SetPrompt
    \/ EnableClassification
    \/ Start
    \/ ClassifierNode
    \/ AgentNodeFewCalls
    \/ ToolsNode
    \/ Reply
    \/ Except

\* a run of the agent.py graph beside the three functions that write the shared state
SpecFrame == InitFrame /\ [][NextFrame]_vars

-----------------------------------------------------------------------------
(* summarize_channel_history and _iter_channel_messages (tools/slack_tools.py) *)

\* messages of the channel inside the lookback window
MaxHistory == 3

\* messages the remote side returns per page (the request asks for limit=200)
PageSize == 2

\* largest max_messages the tool is called with
MaxCap == 3

\* 429 answers the remote side gives during one call
MaxRateLimits == 2

\* the names bound in tools/slack_tools.py by its import statements (lines 2-7)
ImportedNames ==
    {"datetime", "timedelta", "List", "Dict", "Optional", "re", "tool", "WebClient", "SlackApiError"}

\* the global names of tools/slack_tools.py: the imports, client and the functions
ModuleNames ==
    ImportedNames \cup
    {"client", "set_slack_client", "get_channel_history", "get_user_info", "find_user_by_name",
     "get_mentioned_users", "list_channel_members", "_resolve_real_name_cache",
     "_iter_channel_messages", "_chunk", "summarize_channel_history"}

\* the channel's messages in the window, newest first as the remote side returns them;
\* the message at position i of a history of n messages has timestamp n - i + 1; the text
\* "essay" is one of 6000 characters
MessageShapes ==
    [subtype : {"", "channel_join"}, text : {"", "hi"}, user : {"U1", "U2"}]
    \cup {[subtype |-> "", text |-> "essay", user |-> "U1"]}

HistoriesOfLength(n) ==
    { [i \in 1..n |-> [ts |-> n - i + 1, subtype |-> f[i].subtype,
                       text |-> f[i].text, user |-> f[i].user]] :
        f \in [1..n -> MessageShapes] }

Histories == UNION { HistoriesOfLength(n) : n \in 0..MaxHistory }

NumPages(history) ==
    IF Len(history) = 0 THEN 1 ELSE (Len(history) + PageSize - 1) \div PageSize

Min(a, b) == IF a <= b THEN a ELSE b

\* client.conversations_history(..., cursor=cursor): page k of the history and the next
\* cursor (0: no further page); the cursor None asks for the first page
FetchPage(history, cursor) ==
    LET k == IF cursor = 0 THEN 1 ELSE cursor
        first == (k - 1) * PageSize + 1
        last == Min(k * PageSize, Len(history))
    IN  [messages |-> SubSeq(history, first, last),
         next_cursor |-> IF k < NumPages(history) THEN k + 1 ELSE 0]

\* messages.sort(key=lambda m: float(m.get("ts", "0")), reverse=False): a stable
\* ascending sort by timestamp
RECURSIVE SortByTs(_)
SortByTs(msgs) ==
    IF msgs = << >> THEN << >>
    ELSE LET lo == CHOOSE i \in 1..Len(msgs) :
                      \A j \in 1..Len(msgs) :
                          msgs[i].ts < msgs[j].ts \/ (msgs[i].ts = msgs[j].ts /\ i <= j)
             rest == [j \in 1..(Len(msgs) - 1) |-> IF j < lo THEN msgs[j] ELSE msgs[j + 1]]
         IN  <<msgs[lo]>> \o SortByTs(rest)

\* a truncation that leaves the fetched order as it is
TruncateOnly(msgs, max_messages) ==
    SubSeq(msgs, 1, Min(max_messages, Len(msgs)))

\* lines 249-251: sort, then messages[:max_messages]
SortAndTruncate(msgs, max_messages) ==
    SubSeq(SortByTs(msgs), 1, Min(max_messages, Len(msgs)))

\* lines 284-300: drop events with a subtype, empty texts and, with a user filter,
\* the messages of other authors
Eligible(m, user_id) ==
    /\ m.subtype = ""
    /\ m.text # ""
    /\ user_id = None \/ m.user = user_id

Filtered(raw_msgs, user_id) == SelectSeq(raw_msgs, LAMBDA m : Eligible(m, user_id))

\* len(text) of a message text and of a real name
TextLength(text) ==
    CASE text = "" -> 0
      [] text = "hi" -> 2
      [] text = "essay" -> 6000
      [] text = "Dana" -> 4
      [] text = "Sam" -> 3

\* lines 309-313: the length of "\n".join(transcript_lines), each line being
\* f"[{ts_str}] {label}: {text}" with a 19-character ts_str and the author's real name
RECURSIVE TranscriptLength(_)
TranscriptLength(filtered) ==
    IF filtered = << >> THEN 0
    ELSE LET m == Head(filtered)
             line == 22 + TextLength(RealNameOf(m.user)) + 2 + TextLength(m.text)
         IN  line + (IF Len(filtered) > 1 THEN 1 ELSE 0) + TranscriptLength(Tail(filtered))

\* summarize_channel_history: chunks = _chunk(transcript, chunk_size=5000)
chunk_size == 5000

\* len(_chunk(text, chunk_size)) for a text of the given length
_chunk(length, size) == (length + size - 1) \div size

\* lines 331-338: the calls of summarize_block for the chunks of the transcript
SummarizeBlockCalls(chunks) == IF chunks = 1 THEN 1 ELSE chunks + 1

\* line 356: the except clause of summarize_channel_history
ErrorResult(e) == [kind |-> "error", text |-> <<"Error summarizing channel history: ", e>>]

ItStart(history, user_id, max_messages) ==
    [pc |-> "fetch", tool |-> "summarize_channel_history", history |-> history, user_id |-> user_id, max_messages |-> max_messages,
     cursor |-> 0, messages |-> << >>, fetches |-> 0, limited |-> 0,
     raw_msgs |-> << >>, filtered |-> << >>, llm_calls |-> 0, failure |-> "none", result |-> [kind |-> "none", text |-> << >>]]

\* the state of the handler while summarize_channel_history is looked at on its own
RunIdle ==
    /\ graph = "agent"
    /\ env = [users_info |-> "ok", search |-> "ok"]
    /\ client = "client"
    /\ classifierFile = TRUE
    /\ USE_CLASSIFICATION = TRUE
    /\ CURRENT_PROMPT_NAME = "conflict_analyst_prompt"
    /\ hpc = "idle"
    /\ node = "none"
    /\ steps = 0
    /\ messages = << >>
    /\ prompt_type = None
    /\ classification_reasoning = << >>
    /\ posted = << >>
    /\ sayFailed = FALSE
    /\ caught = "none"
    /\ llmCalls = 0
    /\ toolRounds = 0
    /\ requested = 0
    /\ cls = [invoked |-> FALSE, failed |-> FALSE, text |-> << >>]
    /\ used = {}

\* summarize_channel_history(channel_id, hours, user_id, max_messages) is called
InitSummarize ==
    /\ RunIdle
    /\ \E history \in Histories, user_id \in {None, "U1"}, max_messages \in 1..MaxCap :
          it = ItStart(history, user_id, max_messages)

\* lines 235-241, the handler of SlackApiError for a 429 answer: time.sleep(delay) and
\* continue when the name time is bound, NameError otherwise
OnRateLimited ==
    IF "time" \in ModuleNames
    THEN it' = [it EXCEPT !.limited = @ + 1]
    ELSE it' = [it EXCEPT !.limited = @ + 1, !.pc = "done",
                          !.result = ErrorResult("name 'time' is not defined")]

\* a loop that stops only when a page comes with no next cursor
OnPageIgnoringCap(resp) ==
    LET msgs == it.messages \o resp.messages
    IN  IF resp.next_cursor = 0
        THEN it' = [it EXCEPT !.messages = msgs, !.fetches = @ + 1, !.pc = "fetched",
                              !.raw_msgs = SortAndTruncate(msgs, it.max_messages)]
        ELSE it' = [it EXCEPT !.messages = msgs, !.fetches = @ + 1,
                              !.cursor = resp.next_cursor]

\* lines 242-248: a page arrived
OnPage(resp) ==
    LET msgs == it.messages \o resp.messages
    IN  IF Len(msgs) >= it.max_messages \/ resp.next_cursor = 0
        THEN it' = [it EXCEPT !.messages = msgs, !.fetches = @ + 1, !.pc = "fetched",
                              !.raw_msgs = SortAndTruncate(msgs, it.max_messages)]
        ELSE it' = [it EXCEPT !.messages = msgs, !.fetches = @ + 1,
                              !.cursor = resp.next_cursor]

\* one pass of the while loop of _iter_channel_messages: the fetch answers with a page,
\* is rate-limited, or fails otherwise (the failure is re-raised and caught at line 355)
IterFetch ==
    /\ it.pc = "fetch"
    /\ IF client = None
       THEN it' = [it EXCEPT !.pc = "done",
                             !.result = ErrorResult("'NoneType' object has no attribute 'conversations_history'")]
       ELSE \/ OnPage(FetchPage(it.history, it.cursor))
            \/ /\ it.limited < MaxRateLimits
               /\ OnRateLimited
            \/ it' = [it EXCEPT !.pc = "done", !.failure = "fetch",
                                    !.result = ErrorResult("channel_not_found")]
    /\ UNCHANGED runVars

\* lines 340-353: f"*{header}*\n\n", the header naming the channel ("C1") and the window
\* (24 hours) and, with a user filter, the real name of the user or, when the lookup
\* fails or answers with ok false, the mention of the user
Header(user_id, lookup) ==
    <<"*", "Channel summary for <#", "C1", "> over the last ", "24", " hours">>
    \o (IF user_id = None THEN << >>
        ELSE IF lookup = "ok" THEN <<" (focused on ", RealNameOf(user_id), ")">>
        ELSE <<" (focused on ", "<@" \o user_id \o ">", ")">>)
    \o <<"*", "[blank line]">>

\* lines 283-353: filter the messages, summarize them, build the result; summarize_block
\* reads the global llm, which the module binds nowhere
Summarize ==
    /\ it.pc = "fetched"
    /\ LET filtered == Filtered(it.raw_msgs, it.user_id)
       IN  IF filtered = << >>
           THEN it' = [it EXCEPT !.pc = "done", !.filtered = filtered,
                                 !.result = [kind |-> "none_eligible",
                                             text |-> <<"No eligible messages in the specified window.">>]]
           ELSE IF "llm" \notin ModuleNames
           THEN it' = [it EXCEPT !.pc = "done", !.filtered = filtered,
                                 !.result = ErrorResult("name 'llm' is not defined")]
           ELSE LET calls == SummarizeBlockCalls(_chunk(TranscriptLength(filtered), chunk_size))
                IN  \/ it' = [it EXCEPT !.pc = "done", !.filtered = filtered,
                                         !.llm_calls = calls,
                                         !.result = [kind |-> "summary",
                                                     text |-> Header(it.user_id, env.users_info)
                                                                \o <<"summary">>]]
                    \/ \E k \in 1..calls :
                          it' = [it EXCEPT !.pc = "done", !.filtered = filtered,
                                           !.llm_calls = k, !.failure = "summarize",
                                           !.result = ErrorResult(LlmError)]
    /\ UNCHANGED runVars

NextSummarize == IterFetch \/ Summarize

SpecSummarize == InitSummarize /\ [][NextSummarize]_vars

\* channels of ordinary messages ("hi", no subtype) of either author: the loop of
\* _iter_channel_messages reads the length of a page and its cursor, never its messages
PlainHistories ==
    UNION { {h \in HistoriesOfLength(n) : \A i \in 1..n : h[i].subtype = "" /\ h[i].text = "hi"} :
              n \in 0..MaxHistory }

\* summarize_channel_history is called on a channel of ordinary messages
InitPaging ==
    /\ RunIdle
    /\ \E history \in PlainHistories, user_id \in {None, "U1"}, max_messages \in 1..MaxCap :
          it = ItStart(history, user_id, max_messages)

\* a call of the tool runs to its end: the interpreter takes every step that can be taken
FairSpecPaging == InitPaging /\ [][NextSummarize]_vars /\ WF_vars(NextSummarize)

-----------------------------------------------------------------------------
(* The roster tools of tools/slack_tools.py, each call looked at on its own *)

\* members a roster holds besides the crowd
MaxRoster == 2

\* size of the block of other members a large roster starts with
CrowdSize == 10

\* what conversations_members and users_info do: answer ok, answer with ok false, raise
Outcomes == {"ok", "not_ok", "raise"}

\* user_info["user"] of the members: profile.real_name, profile.display_name, name, is_bot
Profiles ==
    { [real_name |-> "Dana Smith", display_name |-> "", name |-> "ds", is_bot |-> FALSE],
      [real_name |-> "Pat Lee", display_name |-> "Dana", name |-> "pl", is_bot |-> FALSE],
      [real_name |-> "Kim Roe", display_name |-> "", name |-> "k.dana", is_bot |-> FALSE],
      [real_name |-> "Sam Poe", display_name |-> "Sam", name |-> "sam", is_bot |-> FALSE],
      [real_name |-> "Helper", display_name |-> "", name |-> "helper", is_bot |-> TRUE] }

\* a member of the channel: the profile and what users_info does when asked for it
Members == [user : Profiles, lookup : Outcomes]

Crowd(n) ==
    [i \in 1..n |-> [user |-> [real_name |-> "Sam Poe", display_name |-> "Sam",
                               name |-> "sam", is_bot |-> FALSE],
                     lookup |-> "ok"]]

RECURSIVE SeqsUpTo(_, _)
SeqsUpTo(S, n) ==
    IF n = 0 THEN { << >> }
    ELSE LET shorter == SeqsUpTo(S, n - 1)
         IN  shorter \cup { Append(l, x) : l \in {y \in shorter : Len(y) = n - 1}, x \in S }

\* the rosters: up to MaxRoster members, alone or behind a crowd
Rosters ==
    { Crowd(n) \o tail : n \in {0, CrowdSize}, tail \in SeqsUpTo(Members, MaxRoster) }

\* members_response["members"]: the identifier of the i-th member of the roster
IdOf(i) == "U" \o ToString(i)

\* the names find_user_by_name is asked for
NameInputs == {"Dana", " dan ", "zed", ""}

\* str.strip()
Strip(str) == IF str = " dan " THEN "dan" ELSE str

\* sub in str
Contains(sub, str) ==
    \/ sub = ""
    \/ sub = str
    \/ sub \in {"dana", "dan"} /\ str \in {"dana smith", "dana", "k.dana"}

\* str.startswith(prefix)
StartsWith(str, prefix) ==
    \/ prefix = ""
    \/ prefix = str
    \/ prefix \in {"dana", "dan"} /\ str \in {"dana smith", "dana"}

\* ", ".join(names)
RECURSIVE JoinComma(_)
JoinComma(names) ==
    IF names = << >> THEN << >>
    ELSE IF Len(names) = 1 THEN names
    ELSE <<Head(names), ", ">> \o JoinComma(Tail(names))

\* what str(e) gives when an attribute of the client None is read
NoneTypeError(attr) == "'NoneType' object has no attribute '" \o attr \o "'"

MembersError == "conversations_members failed"

\* a match on the real name only
MatchesRealName(name_lower, user) ==
    Contains(name_lower, Lower(user.real_name))

\* lines 102-106: the match condition of find_user_by_name
Matches(name_lower, user) ==
    LET real_name == Lower(user.real_name)
        display_name == Lower(user.display_name)
        username == Lower(user.name)
    IN  \/ Contains(name_lower, real_name)
        \/ Contains(name_lower, display_name)
        \/ Contains(name_lower, username)
        \/ StartsWith(real_name, name_lower)
        \/ StartsWith(display_name, name_lower)

\* lines 89-110: the loop over member_ids from position i on
RECURSIVE ScanMembers(_, _, _, _)
ScanMembers(roster, i, name_lower, all_names) ==
    IF i > Len(roster) THEN [best_match |-> None, all_names |-> all_names]
    ELSE IF roster[i].lookup # "ok" THEN ScanMembers(roster, i + 1, name_lower, all_names)
    ELSE LET names == Append(all_names, roster[i].user.real_name)
         IN  IF Matches(name_lower, roster[i].user)
             THEN [best_match |-> IdOf(i), all_names |-> names]
             ELSE ScanMembers(roster, i + 1, name_lower, names)

\* line 117: the text returned when no member matches
NotFoundText(name, all_names) ==
    <<"Could not find user matching '", name, "' in this channel. Available users include: ">>
        \o JoinComma(SubSeq(all_names, 1, Min(10, Len(all_names))))

\* find_user_by_name(name, channel_id), with what conversations_members does and the
\* roster of the channel
find_user_by_name(cl, members_response, roster, name) ==
    LET failed(e) ==
            [raised |-> FALSE,
             text |-> <<"Error finding user: ", e, ". Bot may need permissions: users:read, channels:read">>]
    IN  IF cl = None THEN failed(NoneTypeError("conversations_members"))
        ELSE IF members_response = "raise" THEN failed(MembersError)
        ELSE IF members_response = "not_ok"
        THEN [raised |-> FALSE,
              text |-> <<"Error: Unable to access channel members. Bot may need additional permissions (users:read, channels:read).">>]
        ELSE IF roster = << >>
        THEN [raised |-> FALSE, text |-> <<"No members found in this channel.">>]
        ELSE LET scan == ScanMembers(roster, 1, Strip(Lower(name)), << >>)
             IN  IF scan.best_match # None
                 THEN [raised |-> FALSE, text |-> <<"<@", scan.best_match, ">">>]
                 ELSE [raised |-> FALSE, text |-> NotFoundText(name, scan.all_names)]

ItFind(members_response, roster, name) ==
    [pc |-> "call", tool |-> "find_user_by_name", members_response |-> members_response,
     roster |-> roster, name |-> name, result |-> [raised |-> FALSE, text |-> << >>]]

\* one roster on which the failures of the client and of conversations_members are tried
SmallRoster == <<[user |-> [real_name |-> "Dana Smith", display_name |-> "", name |-> "ds",
                           is_bot |-> FALSE],
                  lookup |-> "ok"]>>

\* the state of the handler while a tool call is looked at on its own
ToolsIdle ==
    /\ graph = "agent"
    /\ env = [users_info |-> "ok", search |-> "ok"]
    /\ classifierFile = TRUE
    /\ USE_CLASSIFICATION = TRUE
    /\ CURRENT_PROMPT_NAME = "conflict_analyst_prompt"
    /\ hpc = "idle"
    /\ node = "none"
    /\ steps = 0
    /\ messages = << >>
    /\ prompt_type = None
    /\ classification_reasoning = << >>
    /\ posted = << >>
    /\ sayFailed = FALSE
    /\ caught = "none"
    /\ llmCalls = 0
    /\ toolRounds = 0
    /\ requested = 0
    /\ cls = [invoked |-> FALSE, failed |-> FALSE, text |-> << >>]
    /\ used = {}

\* a get_channel_history that does not look at the client before using it
get_channel_history_unguarded(cl, history_response, history, limit) ==
    IF cl = None
    THEN [raised |-> TRUE, text |-> <<"'NoneType' object has no attribute 'conversations_history'">>]
    ELSE IF history_response = "raise"
    THEN [raised |-> FALSE, text |-> <<"Error fetching channel history: ", "channel_not_found">>]
    ELSE [raised |-> FALSE, text |-> << >>]

\* lines 31-37: the lines of history_str for messages[k], ..., messages[1]
RECURSIVE HistoryLines(_, _)
HistoryLines(msgs, k) ==
    IF k = 0 THEN << >>
    ELSE <<"[**User: ", msgs[k].user, " at ", ToString(msgs[k].ts), "**] ", msgs[k].text, "\n">>
             \o HistoryLines(msgs, k - 1)

\* get_channel_history(channel_id, limit), with what conversations_history does and the
\* messages of the channel, newest first
get_channel_history(cl, history_response, history, limit) ==
    IF cl = None
    THEN [raised |-> FALSE, text |-> <<"Error: Slack client not initialized">>]
    ELSE IF history_response = "raise"
    THEN [raised |-> FALSE, text |-> <<"Error fetching channel history: ", "channel_not_found">>]
    ELSE LET msgs == SubSeq(history, 1, Min(limit, Len(history)))
         IN  [raised |-> FALSE, text |-> HistoryLines(msgs, Len(msgs))]

\* pieces a message text is made of
MaxPieces == 2

TextPieces == {"hi ", "<@U1>", "<@U2>", "<@u3>"}

\* re.findall(r'<@([UW][A-Z0-9]+)>', message_text) on one piece
MentionIn(piece) ==
    CASE piece = "<@U1>" -> <<"U1">>
      [] piece = "<@U2>" -> <<"U2">>
      [] OTHER -> << >>

RECURSIVE FindAllMentions(_)
FindAllMentions(message_text) ==
    IF message_text = << >> THEN << >>
    ELSE MentionIn(Head(message_text)) \o FindAllMentions(Tail(message_text))

\* ", ".join(items), each item a text
RECURSIVE JoinTexts(_, _)
JoinTexts(items, sep) ==
    IF items = << >> THEN << >>
    ELSE IF Len(items) = 1 THEN items[1]
    ELSE items[1] \o <<sep>> \o JoinTexts(Tail(items), sep)

\* lines 141-149: the names collected for the mentioned users
RECURSIVE MentionNames(_, _, _)
MentionNames(cl, lookup, matches) ==
    IF matches = << >> THEN << >>
    ELSE LET user_id == Head(matches)
             rest == MentionNames(cl, lookup, Tail(matches))
         IN  IF cl = None \/ lookup[user_id] = "raise"
             THEN << <<"<@", user_id, ">">> >> \o rest
             ELSE IF lookup[user_id] = "ok"
             THEN << <<RealNameOf(user_id), " (<@", user_id, ">)">> >> \o rest
             ELSE rest

\* get_mentioned_users(message_text), with what users_info does for each user
get_mentioned_users(cl, lookup, message_text) ==
    LET matches == FindAllMentions(message_text)
    IN  IF matches # << >>
        THEN [raised |-> FALSE,
              text |-> <<"Found ", ToString(Len(matches)), " mentioned user(s): ">>
                          \o JoinTexts(MentionNames(cl, lookup, matches), ", ")]
        ELSE [raised |-> FALSE, text |-> <<"No users were mentioned in this message">>]

\* the bullet character that starts a line of member_list
Bullet == "[bullet] "

\* lines 181-194: the lines of member_list from position i on
RECURSIVE MemberList(_, _)
MemberList(roster, i) ==
    IF i > Len(roster) THEN << >>
    ELSE IF roster[i].lookup # "ok" \/ roster[i].user.is_bot THEN MemberList(roster, i + 1)
    ELSE << <<Bullet, roster[i].user.real_name, " (<@", IdOf(i), ">)">> >> \o MemberList(roster, i + 1)

\* list_channel_members(channel_id)
list_channel_members(cl, members_response, roster) ==
    IF cl = None
    THEN [raised |-> FALSE,
          text |-> <<"Error listing members: ", NoneTypeError("conversations_members")>>]
    ELSE IF members_response = "raise"
    THEN [raised |-> FALSE, text |-> <<"Error listing members: ", MembersError>>]
    ELSE IF members_response = "not_ok"
    THEN [raised |-> FALSE,
          text |-> <<"Error: Unable to access channel members. Bot needs permissions: users:read, channels:read">>]
    ELSE IF roster = << >>
    THEN [raised |-> FALSE, text |-> <<"No members found in this channel.">>]
    ELSE LET member_list == MemberList(roster, 1)
         IN  IF member_list # << >>
             THEN [raised |-> FALSE,
                   text |-> <<"Channel members (", ToString(Len(member_list)), " users):\n">>
                               \o JoinTexts(member_list, "\n")]
             ELSE [raised |-> FALSE, text |-> <<"No human members found in this channel.">>]

NoResult == [raised |-> FALSE, text |-> << >>]

ItHistory(history_response, history, limit) ==
    [pc |-> "call", tool |-> "get_channel_history", history_response |-> history_response,
     history |-> history, limit |-> limit, result |-> NoResult]

ItUserInfo(lookup, user_id) ==
    [pc |-> "call", tool |-> "get_user_info", lookup |-> lookup, user_id |-> user_id,
     result |-> NoResult]

ItMentions(lookup, message_text) ==
    [pc |-> "call", tool |-> "get_mentioned_users", lookup |-> lookup,
     message_text |-> message_text, result |-> NoResult]

ItMembers(members_response, roster) ==
    [pc |-> "call", tool |-> "list_channel_members", members_response |-> members_response,
     roster |-> roster, result |-> NoResult]

\* the calls of the other tools
InitHistory ==
    /\ client \in {None, "client"}
    /\ \E history_response \in {"ok", "raise"}, history \in HistoriesOfLength(2), limit \in 1..2 :
          it = ItHistory(history_response, history, limit)

InitUserInfo ==
    /\ client \in {None, "client"}
    /\ \E lookup \in Outcomes, user_id \in {"U1", "U2"} : it = ItUserInfo(lookup, user_id)

InitMentions ==
    /\ client \in {None, "client"}
    /\ \E lookup \in [{"U1", "U2"} -> Outcomes], message_text \in SeqsUpTo(TextPieces, MaxPieces) :
          it = ItMentions(lookup, message_text)

InitMembers ==
    \/ /\ client = "client"
       /\ \E roster \in Rosters : it = ItMembers("ok", roster)
    \/ /\ client \in {None, "client"}
       /\ \E members_response \in Outcomes : it = ItMembers(members_response, SmallRoster)

InitSummarizeTool ==
    /\ client \in {None, "client"}
    /\ \E history \in HistoriesOfLength(1), user_id \in {None, "U1"} :
          it = ItStart(history, user_id, 1)

GetChannelHistory ==
    /\ it.pc = "call" /\ it.tool = "get_channel_history"
    /\ it' = [it EXCEPT !.pc = "done",
                        !.result = get_channel_history(client, it.history_response, it.history, it.limit)]
    /\ UNCHANGED runVars

GetUserInfo ==
    /\ it.pc = "call" /\ it.tool = "get_user_info"
    /\ it' = [it EXCEPT !.pc = "done",
                        !.result = get_user_info(client, [users_info |-> it.lookup, search |-> "ok"],
                                                 it.user_id)]
    /\ UNCHANGED runVars

GetMentionedUsers ==
    /\ it.pc = "call" /\ it.tool = "get_mentioned_users"
    /\ it' = [it EXCEPT !.pc = "done",
                        !.result = get_mentioned_users(client, it.lookup, it.message_text)]
    /\ UNCHANGED runVars

ListChannelMembers ==
    /\ it.pc = "call" /\ it.tool = "list_channel_members"
    /\ it' = [it EXCEPT !.pc = "done",
                        !.result = list_channel_members(client, it.members_response, it.roster)]
    /\ UNCHANGED runVars

\* the calls of find_user_by_name
InitFind ==
    \/ /\ client = "client"
       /\ \E roster \in Rosters, name \in NameInputs : it = ItFind("ok", roster, name)
    \/ /\ client \in {None, "client"}
       /\ \E members_response \in Outcomes : it = ItFind(members_response, SmallRoster, "Dana")

FindUserByName ==
    /\ it.pc = "call" /\ it.tool = "find_user_by_name"
    /\ it' = [it EXCEPT !.pc = "done",
                        !.result = find_user_by_name(client, it.members_response, it.roster, it.name)]
    /\ UNCHANGED runVars

InitTools ==
    /\ ToolsIdle
    /\ \/ InitFind
       \/ InitHistory
       \/ InitUserInfo
       \/ InitMentions
       \/ InitMembers
       \/ InitSummarizeTool

NextTools ==
    \/ GetChannelHistory
    \/ GetUserInfo
    \/ FindUserByName
    \/ GetMentionedUsers
    \/ ListChannelMembers
    \/ IterFetch
    \/ Summarize

SpecTools == InitTools /\ [][NextTools]_vars

-----------------------------------------------------------------------------
(* Properties of the run *)

Terminated == hpc \in {"done", "raised"}

\* the model is about to be invoked (again): the graph waits at the agent node
BeforeRespond == hpc = "graph" /\ node = "agent"

AIIndexes == {k \in 1..Len(messages) : messages[k].type = "ai"}

\* the tool-result messages after index k that carry identifier id
ResultsFor(k, id) ==
    {j \in (k + 1)..Len(messages) :
        messages[j].type = "tool" /\ messages[j].tool_call_id = id}

Pieces(text) == {text[i] : i \in 1..Len(text)}

\* C1: before every model invocation, each tool call of each assistant message has
\* exactly one tool-result message carrying its identifier, registered tool or not.
C1_NoOrphanedCalls ==
    BeforeRespond =>
        \A k \in AIIndexes : \A c \in 1..Len(messages[k].tool_calls) :
            Cardinality(ResultsFor(k, messages[k].tool_calls[c].id)) = 1

\* C2: before the next model invocation, each call of a tool that is not in the registry
\* has an error-labeled tool-result message whose text contains the unknown name.
C2_UnknownToolError ==
    BeforeRespond =>
        \A k \in AIIndexes : \A c \in 1..Len(messages[k].tool_calls) :
            LET call == messages[k].tool_calls[c]
            IN  call.name \notin tool_executor(graph) =>
                    \E j \in ResultsFor(k, call.id) :
                        /\ call.name \in Pieces(messages[j].content)
                        /\ \E p \in Pieces(messages[j].content) : p \in {"Error", "Error: ", "Error executing "}

\* every reply the model gave in this run requested tools
EveryReplyCallsTools ==
    /\ AIIndexes # {}
    /\ \A k \in AIIndexes : messages[k].tool_calls # << >>

\* C3: the model is invoked at most recursion_limit times and the executor runs at most
\* recursion_limit super-steps; a run in which every reply requests tools ends in the
\* except clause, whose fixed fallback text is what the user is sent.
C3_BoundedLoop ==
    /\ llmCalls <= recursion_limit
    /\ steps <= recursion_limit
    /\ (hpc = "done" /\ EveryReplyCallsTools) => (caught # "none" /\ posted = <<error_message>>)
    /\ (hpc = "graph" /\ node = "end") => ~EveryReplyCallsTools

\* the iteration budget ran out after five model invocations and the fallback was posted
C3_Witness ==
    /\ hpc = "done"
    /\ caught = "GraphRecursionError"
    /\ EveryReplyCallsTools
    /\ llmCalls = 5
    /\ posted = <<error_message>>

\* C4: every handled mention ends with one message posted, unless the posting call of
\* the except clause itself failed; the handler never ends silently.
C4_AlwaysReplies ==
    /\ [](hpc = "done" => Len(posted) = 1)
    /\ [](hpc = "raised" => sayFailed)
    /\ <>Terminated

\* a failure of the bot's identity lookup was answered with the error message
C4_Witness ==
    /\ hpc = "done"
    /\ caught = "auth_test"
    /\ posted = <<error_message>>

\* C5: the label classifier_node stores is one of the known prompt labels.
C5_LabelInClosedSet ==
    prompt_type # None => prompt_type \in KnownLabels

\* classifier_node raised: the handler's except clause caught it at the classifier node
ClassifierRaised == node = "classifier" /\ caught = "FileNotFoundError"

\* C6: classifier_node never raises past its boundary.
C6_ClassifierNeverRaises == ~ClassifierRaised

\* the three failure kinds of the classifier
ParseFailure == cls.invoked /\ ~cls.failed /\ cls.text = <<DocNotJson>>
MissingField == cls.invoked /\ ~cls.failed /\ cls.text \in {<<DocNoClassification>>, <<DocEmptyObject>>}
CallFailure == cls.invoked /\ cls.failed

StatesFailure(reasoning) == Len(reasoning) = 3 /\ reasoning[1] = "Classification failed: "

\* C7 as stated: on each of the three failure kinds the label is prompt1 and the
\* rationale states the failure reason.
C7_Original ==
    (ParseFailure \/ MissingField \/ CallFailure) =>
        (prompt_type = "prompt1" /\ StatesFailure(classification_reasoning))

\* C7 amended: on each of the three failure kinds the label is prompt1; the rationale
\* states the failure reason after a parse failure or a call failure, and after a missing
\* 'classification' field it is the reply's 'reasoning' field, or 'No reasoning provided'.
C7_FallbackLabel ==
    /\ (ParseFailure \/ MissingField \/ CallFailure) => prompt_type = "prompt1"
    /\ ParseFailure =>
          classification_reasoning = <<"Classification failed: ", "JSONDecodeError", ", defaulting to prompt1">>
    /\ CallFailure =>
          classification_reasoning = <<"Classification failed: ", LlmError, ", defaulting to prompt1">>
    /\ (MissingField /\ cls.text = <<DocNoClassification>>) => classification_reasoning = <<"r">>
    /\ (MissingField /\ cls.text = <<DocEmptyObject>>) =>
          classification_reasoning = <<"No reasoning provided">>

\* a reply without the 'classification' field was classified
C7_Witness ==
    MissingField /\ prompt_type = "prompt1" /\ classification_reasoning = <<"No reasoning provided">>

\* the model's first reply carries no tool calls
FirstReplyFinal ==
    /\ Len(messages) >= 2
    /\ messages[2].type = "ai"
    /\ messages[2].tool_calls = << >>

ResolverOk == env.users_info = "ok" /\ (graph = "app" \/ client # None)

\* the first reply of the model requests get_user_info
FirstReplyAsksUserInfo ==
    /\ Len(messages) >= 2
    /\ messages[2].type = "ai"
    /\ \E c \in 1..Len(messages[2].tool_calls) : messages[2].tool_calls[c].name = "get_user_info"

\* C9: when the resolver answers ok, every get_user_info call is answered by one tool
\* result whose text is exactly the real name; after the TOOLS transition that follows the
\* first reply the graph is back at the agent node with budget left, so the model is
\* invoked a second time with the tool result in the history.
C9_UserInfoResult ==
    ResolverOk =>
        /\ BeforeRespond =>
              \A k \in AIIndexes : \A c \in 1..Len(messages[k].tool_calls) :
                  LET call == messages[k].tool_calls[c]
                  IN  call.name = "get_user_info" =>
                          /\ Cardinality(ResultsFor(k, call.id)) = 1
                          /\ \A j \in ResultsFor(k, call.id) :
                                messages[j].content = <<RealNameOf(call.args.user_id)>>
        /\ (FirstReplyAsksUserInfo /\ toolRounds >= 1) =>
              \/ llmCalls >= 2
              \/ BeforeRespond /\ StepAllowed(steps)

\* the second model invocation happened with the tool result "Dana" in the history
C9_Witness ==
    /\ ResolverOk /\ FirstReplyAsksUserInfo
    /\ llmCalls = 2
    /\ Len(messages) >= 4
    /\ \E j \in 3..Len(messages) : messages[j].type = "tool" /\ messages[j].content = <<"Dana">>
    /\ messages[Len(messages)].type = "ai"

\* the invocation of the tool the call names fails: the search backend is down
InvocationFails(call) == call.name = "google_search_tool" /\ env.search = "raise"

\* C17: when the invocation of a registered tool fails, the failure does not reach the
\* handler; before the next model invocation the call has one tool-result message with
\* the text 'Error executing <tool name>: <failure description>', the other registered
\* calls of the same assistant message have their results too, and after a TOOLS
\* transition the graph is at the agent node.
C17_ToolFailureContained ==
    /\ caught # SearchError
    /\ (messages # << >> /\ messages[Len(messages)].type = "tool") => node = "agent"
    /\ BeforeRespond =>
          \A k \in AIIndexes :
              (\E c \in 1..Len(messages[k].tool_calls) : InvocationFails(messages[k].tool_calls[c])) =>
                  \A c \in 1..Len(messages[k].tool_calls) :
                      LET call == messages[k].tool_calls[c]
                      IN  call.name \in tool_executor(graph) =>
                              /\ Cardinality(ResultsFor(k, call.id)) = 1
                              /\ InvocationFails(call) =>
                                    \A j \in ResultsFor(k, call.id) :
                                        /\ messages[j].content =
                                              <<"Error executing ", call.name, ": ", SearchError>>
                                        /\ messages[j].name = call.name

\* the search failed, its call got the error text, the get_user_info call after it in
\* the same assistant message got its result, and the graph is back at the agent node
C17_Witness ==
    /\ BeforeRespond /\ env.search = "raise"
    /\ Len(messages) = 4
    /\ Len(messages[2].tool_calls) = 2
    /\ messages[2].tool_calls[1].name = "google_search_tool"
    /\ messages[2].tool_calls[2].name = "get_user_info"
    /\ messages[3].content = <<"Error executing ", "google_search_tool", ": ", SearchError>>
    /\ messages[3].tool_call_id = messages[2].tool_calls[1].id
    /\ messages[4].type = "tool"
    /\ messages[4].tool_call_id = messages[2].tool_calls[2].id

\* the assistant message a tool-result message at index j follows
AskerOf(j) == CHOOSE k \in AIIndexes : k < j /\ \A l \in AIIndexes : l < j => l <= k

\* the positions, in the tool-call list of the assistant message at index k, of the calls
\* with identifier id
CallPositions(k, id) == {c \in 1..Len(messages[k].tool_calls) : messages[k].tool_calls[c].id = id}

ToolIndexes == {j \in 1..Len(messages) : messages[j].type = "tool"}

\* C18: every tool-result message carries the identifier of a tool call of an assistant
\* message before it, and the tool-result messages that follow one assistant message are
\* in the order of the calls they answer: each answers a call listed after the call the
\* tool-result message before it answers.
C18_ResultsReferenceCalls ==
    /\ \A j \in ToolIndexes :
          \E k \in AIIndexes : k < j /\ CallPositions(k, messages[j].tool_call_id) # {}
    /\ \A j \in ToolIndexes :
          (j + 1) \in ToolIndexes =>
              LET k == AskerOf(j)
              IN  \A ci \in CallPositions(k, messages[j].tool_call_id) :
                      \A cj \in CallPositions(k, messages[j + 1].tool_call_id) : ci < cj

\* one TOOLS transition answered the two get_user_info calls of an assistant message, the
\* first call first
C18_Witness ==
    /\ Len(messages) >= 4
    /\ Len(messages[2].tool_calls) = 2
    /\ \A c \in 1..2 : messages[2].tool_calls[c].name = "get_user_info"
    /\ \A c \in 1..2 :
          messages[2 + c].type = "tool" /\ messages[2 + c].tool_call_id = messages[2].tool_calls[c].id
    /\ toolRounds = 1

\* the run is in the graph of agent.py and past the construction of the initial state
InAgentGraph == graph = "agent" /\ hpc # "start"

\* C19: in the graph of agent.py the first transition of a run is CLASSIFY; when
\* classifier_node returns, whatever the label, the next node is the agent node; the model
\* is not invoked for a response before the label is stored; and no later transition
\* enters the classifier node again or changes the stored label and rationale.
C19_ClassifyOnceFirst ==
    /\ [](graph = "agent" /\ llmCalls > 0 => prompt_type # None)
    /\ [][graph = "agent" =>
             /\ (hpc = "start" /\ hpc' = "graph") => node' = "classifier"
             /\ (hpc = "graph" /\ node = "classifier") => (steps = 0 /\ llmCalls = 0)
             /\ (hpc = "graph" /\ node = "classifier" /\ prompt_type' # prompt_type) =>
                   (node' = "agent" /\ hpc' = "graph")
             /\ (InAgentGraph /\ node # "classifier") =>
                   /\ node' # "classifier"
                   /\ prompt_type' = prompt_type
                   /\ classification_reasoning' = classification_reasoning]_vars

\* a run was classified as prompt2, then went twice through RESPOND and once through TOOLS
C19_Witness ==
    /\ graph = "agent" /\ cls.invoked
    /\ prompt_type = "prompt2"
    /\ classification_reasoning = <<"r">>
    /\ llmCalls = 2 /\ toolRounds = 1
    /\ steps = 4

IsPrefix(s, t) == Len(s) <= Len(t) /\ SubSeq(t, 1, Len(s)) = s

\* a super-step of the graph has run the named node to its end
NodeReturned(n) == hpc = "graph" /\ node = n /\ steps' = steps + 1

\* C20: every transition leaves the previous message history as a prefix of the new one;
\* a RESPOND transition appends exactly one assistant message, a CLASSIFY transition
\* appends nothing, a TOOLS transition appends tool-result messages only.
C20_AppendOnlyHistory ==
    [][/\ IsPrefix(messages, messages')
       /\ NodeReturned("agent") =>
             /\ Len(messages') = Len(messages) + 1
             /\ messages'[Len(messages')].type = "ai"
       /\ NodeReturned("classifier") => messages' = messages
       /\ NodeReturned("tools") =>
             \A j \in (Len(messages) + 1)..Len(messages') : messages'[j].type = "tool"]_vars

\* a classified run holds the user's message, a reply with tool calls, a tool result and
\* the final reply, in this order
C20_Witness ==
    /\ graph = "agent" /\ prompt_type # None
    /\ hpc = "graph" /\ node = "end"
    /\ Len(messages) = 4
    /\ messages[1].type = "human"
    /\ messages[2].type = "ai" /\ Len(messages[2].tool_calls) = 1
    /\ messages[3].type = "tool"
    /\ messages[4].type = "ai" /\ messages[4].tool_calls = << >>

-----------------------------------------------------------------------------
(* Properties of summarize_channel_history *)

\* C10: a call whose page fetches were rate-limited, and failed in no other way, does not
\* return an error result.
C10_RateLimitTolerated ==
    (it.pc = "done" /\ it.limited > 0 /\ it.failure = "none") => it.result.kind # "error"

C12_OneFinalSummary ==
    (it.pc = "done" /\ it.filtered # << >> /\ it.failure = "none") =>
        /\ it.result.kind = "summary"
        /\ it.llm_calls = SummarizeBlockCalls(_chunk(TranscriptLength(it.filtered), chunk_size))

\* the call returned and no remote call failed or was rate-limited
AllRemoteCallsSucceeded == it.pc = "done" /\ it.failure = "none" /\ it.limited = 0

\* C24: with a user filter every record of the transcript is a message of that user; when
\* no remote call failed and a message is eligible the result starts with the header
\* naming the channel, the window and the focal user; when none is eligible the result is
\* the 'No eligible messages' text and the model was not invoked.
C24_FilteredSummary ==
    /\ it.user_id # None => \A i \in 1..Len(it.filtered) : it.filtered[i].user = it.user_id
    /\ (AllRemoteCallsSucceeded /\ it.filtered # << >>) =>
           IsPrefix(Header(it.user_id, env.users_info), it.result.text)
    /\ (AllRemoteCallsSucceeded /\ it.filtered = << >>) =>
           /\ it.result.text = <<"No eligible messages in the specified window.">>
           /\ it.llm_calls = 0

\* the timestamps of the messages of a list
Stamps(msgs) == {msgs[i].ts : i \in 1..Len(msgs)}

\* C26: when the fetched pages hold more messages than the cap, no fetched message that
\* _iter_channel_messages drops is newer than a message it keeps.
C26_KeepsMostRecent ==
    (it.pc = "fetched" /\ Len(it.messages) > it.max_messages) =>
        \A dropped \in Stamps(it.messages) \ Stamps(it.raw_msgs), kept \in Stamps(it.raw_msgs) :
            dropped < kept

-----------------------------------------------------------------------------
(* Properties of the roster tools *)

\* a call of find_user_by_name that got the roster of the channel has returned
FindReturned ==
    /\ it.pc = "done" /\ it.tool = "find_user_by_name"
    /\ client # None /\ it.members_response = "ok"

\* the real name, the display name or the handle of the user contains q
NameContains(q, user) ==
    \/ Contains(q, Lower(user.real_name))
    \/ Contains(q, Lower(user.display_name))
    \/ Contains(q, Lower(user.name))

First(S) == CHOOSE i \in S : \A j \in S : i <= j

MentionToken(i) == <<"<@", IdOf(i), ">">>

\* the names a not-found text lists
NamesListed(text) == IF Len(text) <= 3 THEN 0 ELSE (Len(text) - 2) \div 2

IsNotFoundText(text) ==
    \/ text = <<"No members found in this channel.">>
    \/ Len(text) >= 3 /\ text[1] = "Could not find user matching '"

\* C13 as stated: if the names of some roster member contain the lower-cased name, the
\* result is the mention token of the first such member of the roster; otherwise it is a
\* not-found text that lists at most 10 names.
C13_Original ==
    FindReturned =>
        LET q == Lower(it.name)
            matching == {i \in 1..Len(it.roster) : NameContains(q, it.roster[i].user)}
        IN  IF matching # {}
            THEN it.result.text = MentionToken(First(matching))
            ELSE IsNotFoundText(it.result.text) /\ NamesListed(it.result.text) <= 10

\* C13 amended: with the name lower-cased and stripped, and among the members whose
\* identity lookup answered ok, the first member whose real name, display name or handle
\* contains the name gives the result, its mention token; if there is none, the result is
\* the not-found text listing the real names of the first (at most 10) members looked up,
\* and for an empty roster the text that the channel has no members.
C13_FindUser ==
    FindReturned =>
        LET q == Strip(Lower(it.name))
            resolved == {i \in 1..Len(it.roster) : it.roster[i].lookup = "ok"}
            matching == {i \in resolved : NameContains(q, it.roster[i].user)}
            known == SelectSeq(it.roster, LAMBDA m : m.lookup = "ok")
            names == [i \in 1..Min(10, Len(known)) |-> known[i].user.real_name]
        IN  IF it.roster = << >>
            THEN it.result.text = <<"No members found in this channel.">>
            ELSE IF matching # {}
            THEN it.result.text = MentionToken(First(matching))
            ELSE /\ it.result.text =
                       <<"Could not find user matching '", it.name,
                         "' in this channel. Available users include: ">> \o JoinComma(names)
                 /\ NamesListed(it.result.text) <= 10

\* behind a crowd of other members two members match 'dana'; the first of them is returned
C13_Witness ==
    /\ FindReturned
    /\ it.name = "Dana"
    /\ Len(it.roster) = CrowdSize + 2
    /\ \A i \in {CrowdSize + 1, CrowdSize + 2} :
          it.roster[i].lookup = "ok" /\ NameContains("dana", it.roster[i].user)
    /\ it.result.text = MentionToken(CrowdSize + 1)

\* no member matches and the roster has more than 10 members: 10 names are listed
FindCapReached ==
    /\ FindReturned
    /\ it.name = "zed"
    /\ Len(it.roster) > 10
    /\ NamesListed(it.result.text) = 10

\* the first piece of the error strings of the tools
ErrorPrefixes ==
    {"Error: Slack client not initialized",
     "Error fetching channel history: ",
     "Error fetching user info: ",
     "Error finding user: ",
     "Error: Unable to access channel members. Bot may need additional permissions (users:read, channels:read).",
     "Error: Unable to access channel members. Bot needs permissions: users:read, channels:read",
     "Error extracting mentions: ",
     "Error listing members: ",
     "Error summarizing channel history: "}

IsErrorText(text) == text # << >> /\ text[1] \in ErrorPrefixes

\* the tool call has returned or raised
ToolDone == it.pc = "done"

ToolRaised == it.tool # "summarize_channel_history" /\ it.result.raised

\* the call reached a use of the client and the client was never injected
ClientMissing ==
    /\ client = None
    /\ it.tool = "get_mentioned_users" => FindAllMentions(it.message_text) # << >>

\* the remote call the tool starts with (the history fetch, the roster fetch, the one
\* identity lookup of get_user_info) failed
OwnCallFailed ==
    CASE it.tool = "get_channel_history" -> it.history_response = "raise"
      [] it.tool = "get_user_info" -> it.lookup = "raise"
      [] it.tool \in {"find_user_by_name", "list_channel_members"} -> it.members_response = "raise"
      [] it.tool = "summarize_channel_history" -> it.failure = "fetch" \/ it.limited > 0
      [] OTHER -> FALSE

\* an identity lookup for one of several users failed
ItemLookupFailed ==
    CASE it.tool = "get_mentioned_users" ->
            \E i \in 1..Len(FindAllMentions(it.message_text)) :
                it.lookup[FindAllMentions(it.message_text)[i]] = "raise"
      [] it.tool = "list_channel_members" ->
            it.members_response = "ok" /\ \E i \in 1..Len(it.roster) : it.roster[i].lookup = "raise"
      [] OTHER -> FALSE

-----------------------------------------------------------------------------
(* Properties of the prompt configuration *)

\* the step of the run that executes classifier_node and returns
ClassifierStep == hpc = "graph" /\ node = "classifier" /\ node' = "agent"

\* C15: a run classified after a successful set_prompt(p), and before any
\* enable_classification, does not invoke the classifier model and stores the label p; a
\* run classified after enable_classification invokes the classifier model.
C15_SetPromptSkipsClassification ==
    [][ClassifierStep =>
          /\ it.last = "set_prompt" => (~cls'.invoked /\ prompt_type' = it.p)
          /\ it.last = "enable_classification" => cls'.invoked]_vars

\* after set_prompt("prompt3") a run skipped classification and responded under prompt3
C15_Witness ==
    /\ it.pc = "admin" /\ it.last = "set_prompt" /\ it.p = "prompt3"
    /\ ~cls.invoked
    /\ prompt_type = "prompt3"
    /\ llmCalls >= 1
    /\ used = {"prompt3"}

\* C16: every RESPOND transition of a run builds its prompt from the label classifier_node
\* stored in the state, whatever set_prompt and enable_classification do meanwhile.
C16_LabelFixedForRun ==
    /\ used \subseteq {prompt_type}
    /\ llmCalls > 0 => prompt_type # None

\* set_prompt changed the global label between the first and the second RESPOND
\* transition of a run, and both built their prompt from the label of the state
C16_Witness ==
    /\ it.pc = "admin" /\ it.last = "set_prompt" /\ it.at = 1
    /\ llmCalls >= 2
    /\ CURRENT_PROMPT_NAME # prompt_type
    /\ used = {prompt_type}

-----------------------------------------------------------------------------
(* Properties of the posted text *)

\* what str(e) gives for the exceptions the handler catches
ExceptionDescriptions ==
    {"auth_test", "FileNotFoundError", LlmError, "GraphRecursionError", "say",
     UsersInfoError, SearchError}

\* the content of the last assistant message of msgs that has no tool calls, if any
LastAnswers(msgs) ==
    LET idx == {i \in 1..Len(msgs) : msgs[i].type = "ai" /\ msgs[i].tool_calls = << >>}
    IN  {msgs[i].content : i \in {k \in idx : \A j \in idx : j <= k}}

\* C21: every text handle_app_mention_events posts is the content of the last assistant
\* message without tool calls, the fixed fallback or the fixed error message, and holds
\* the description of no caught exception.
C21_PostedTexts ==
    \A i \in 1..Len(posted) :
        /\ posted[i] \in ({FallbackResponse, error_message} \cup LastAnswers(messages))
        /\ caught \notin Pieces(posted[i])
        /\ Pieces(posted[i]) \cap ExceptionDescriptions = {}

\* the executor raised GraphRecursionError, the handler caught it and posted the fixed
\* error message
C21_Witness ==
    /\ hpc = "done"
    /\ caught = "GraphRecursionError"
    /\ posted = <<error_message>>

-----------------------------------------------------------------------------
(* Properties of the pagination of _iter_channel_messages *)

\* the number of pages after which the loop has to stop: the first page that brings the
\* accumulated count to the cap or that comes with no next cursor
PagesNeeded(history, max_messages) ==
    CHOOSE k \in 1..NumPages(history) :
        /\ k * PageSize >= max_messages \/ k = NumPages(history)
        /\ \A j \in 1..(k - 1) : j * PageSize < max_messages

\* the messages of the first k pages
FirstPages(history, k) == SubSeq(history, 1, Min(k * PageSize, Len(history)))

\* the loop is about to fetch: nothing stops it, and the cursor it sends is the one the
\* previous page came with
FetchJustified ==
    (it.pc = "fetch" /\ it.fetches > 0) =>
        /\ Len(it.messages) < it.max_messages
        /\ it.cursor # 0
        /\ it.cursor = FetchPage(it.history, IF it.fetches = 1 THEN 0 ELSE it.fetches).next_cursor
        /\ it.messages = FirstPages(it.history, it.fetches)

\* the loop was left with the pages it had to fetch and no more
StopJustified ==
    it.pc = "fetched" =>
        /\ it.fetches = PagesNeeded(it.history, it.max_messages)
        /\ it.messages = FirstPages(it.history, it.fetches)
        /\ Len(it.messages) >= it.max_messages \/ it.messages = it.history

\* C22: _iter_channel_messages fetches a next page only while the accumulated count is
\* below the cap and the previous page came with a cursor, which it sends; it stops at
\* the first page that reaches the cap or has no next cursor; and the loop ends.
C22_PaginationStops ==
    /\ [](FetchJustified /\ StopJustified)
    /\ <>(it.pc # "fetch")

\* the loop fetched a second page with the cursor of the first and stopped there because
\* the cap was reached
C22_Witness ==
    /\ it.pc = "fetched"
    /\ it.fetches = 2
    /\ it.cursor = 2
    /\ Len(it.messages) >= it.max_messages

-----------------------------------------------------------------------------
(* Properties of set_prompt *)

\* the step is a call of set_prompt that raised
SetPromptRaised == it'.calls = it.calls + 1 /\ it'.failed = it.failed + 1

\* the step is a call of set_prompt that returned
SetPromptReturned ==
    it'.calls = it.calls + 1 /\ it'.failed = it.failed /\ it'.last = "set_prompt"

\* C23: set_prompt(name) raises exactly for a name without prompt file and then leaves
\* CURRENT_PROMPT_NAME, USE_CLASSIFICATION and the run under way as they were; for a
\* name with a prompt file it sets CURRENT_PROMPT_NAME to name and USE_CLASSIFICATION to
\* false.
C23_SetPromptAbortsOrSets ==
    [][ /\ SetPromptRaised =>
              /\ it'.bad \notin ExistingFiles(classifierFile)
              /\ UNCHANGED <<CURRENT_PROMPT_NAME, USE_CLASSIFICATION, runState>>
        /\ SetPromptReturned =>
              /\ it'.p \in ExistingFiles(classifierFile)
              /\ CURRENT_PROMPT_NAME' = it'.p
              /\ USE_CLASSIFICATION' = FALSE
              /\ UNCHANGED runState ]_vars

\* set_prompt("prompt2") returned, a later set_prompt("no_such_prompt") raised, and the
\* run ended with an answer under the configuration the first call left
C23_Witness ==
    /\ it.pc = "admin" /\ it.calls = 2 /\ it.failed = 1
    /\ it.bad = "no_such_prompt" /\ it.p = "prompt2"
    /\ CURRENT_PROMPT_NAME = "prompt2" /\ USE_CLASSIFICATION = FALSE
    /\ hpc = "done" /\ caught = "none"


\* the run skipped classification: classifier_node stored a label without asking the
\* classifier model
SkippedClassification == graph = "agent" /\ prompt_type # None /\ ~cls.invoked

\* the names that pass the existence check of set_prompt
Validated == AdminPrompts \cap ExistingFiles(classifierFile)

\* C27: whenever USE_CLASSIFICATION is false, CURRENT_PROMPT_NAME is the name of the last
\* set_prompt that passed the existence check, and a run that skipped classification
\* holds a label that passed it, whatever calls of set_prompt and enable_classification
\* were made.
C27_SkippedLabelValidated ==
    /\ ~USE_CLASSIFICATION => (CURRENT_PROMPT_NAME = it.p /\ it.p \in Validated)
    /\ SkippedClassification => prompt_type \in Validated

\* set_prompt("prompt3") returned and a set_prompt of a name without file raised; the
\* run skipped classification and responded under prompt3
C27_Witness ==
    /\ it.pc = "admin" /\ it.calls = 2 /\ it.failed = 1 /\ it.p = "prompt3"
    /\ ~USE_CLASSIFICATION
    /\ SkippedClassification /\ prompt_type = "prompt3"
    /\ llmCalls >= 1

-----------------------------------------------------------------------------
(* Properties of the shared state *)

\* the step is a transition of the run: of the handler, of a node, or of the tools a
\* node invokes
RunStep == runState' # runState

\* the step is a call of set_slack_client
SetSlackClientCalled == ~it.injected /\ it'.injected

\* the step is a call of enable_classification
EnableClassificationCalled ==
    it'.calls = it.calls + 1 /\ it'.failed = it.failed /\ it'.last = "enable_classification"

\* C25: a transition of a run, tool invocations included, leaves the client handle,
\* CURRENT_PROMPT_NAME and USE_CLASSIFICATION as they are; the handle changes only in a
\* call of set_slack_client, CURRENT_PROMPT_NAME only in a call of set_prompt and
\* USE_CLASSIFICATION only in a call of set_prompt or enable_classification.
C25_SharedStateFrame ==
    [][ /\ RunStep => UNCHANGED <<client, CURRENT_PROMPT_NAME, USE_CLASSIFICATION>>
        /\ client' # client => SetSlackClientCalled
        /\ CURRENT_PROMPT_NAME' # CURRENT_PROMPT_NAME => SetPromptReturned
        /\ USE_CLASSIFICATION' # USE_CLASSIFICATION =>
               (SetPromptReturned \/ EnableClassificationCalled) ]_vars

\* a run classified its message, ran its tools and answered; the handle it ends with is
\* the one set_slack_client stored and the global label the one set_prompt stored
C25_Witness ==
    /\ hpc = "done" /\ caught = "none"
    /\ cls.invoked /\ toolRounds >= 1
    /\ it.pc = "admin" /\ it.injected /\ client = "client"
    /\ it.last = "set_prompt" /\ CURRENT_PROMPT_NAME = it.p /\ ~USE_CLASSIFICATION
    /\ prompt_type # CURRENT_PROMPT_NAME

-----------------------------------------------------------------------------
(* Properties of get_mentioned_users *)

\* the user identifiers a result text lists, in the order of the text
ListedIds(text) == SelectSeq(text, LAMBDA piece : piece \in {"U1", "U2"})

\* C28: when k tokens of the text match the mention pattern, get_mentioned_users reports
\* k mentioned users and lists k entries, one per token in order of appearance, whatever
\* the identity lookups return.
C28_EveryMentionListed ==
    (it.pc = "done" /\ it.tool = "get_mentioned_users"
        /\ FindAllMentions(it.message_text) # << >>) =>
        LET matches == FindAllMentions(it.message_text)
        IN  /\ IsPrefix(<<"Found ", ToString(Len(matches)), " mentioned user(s): ">>,
                        it.result.text)
            /\ ListedIds(it.result.text) = matches

=============================================================================
